---- MODULE Spec2Model ----
(***************************************************************************)
(* Media relay: bot.py (staging monitor, distribution engine, owner        *)
(* commands on the recipient registry) and users/login.py (blocklist-gated *)
(* ingestion, ban/unban, blocklist upload).                                *)
(*                                                                         *)
(* bot.py runs one asyncio loop: the monitor task and the command handlers *)
(* interleave only at awaits.  login.py is a separate process: its         *)
(* handlers interleave with bot.py at every step.                          *)
(***************************************************************************)
EXTENDS Integers, Sequences, FiniteSets, TLC

\* ---------------------------------------------------------------- bounds
MaxId == 2          \* identifiers are 1..MaxId
MaxLen == 2         \* longest registry / blocklist list
MaxMsg == 1         \* message identifiers are 1..MaxMsg
MaxStaged == 2      \* most entries in the staging directory at once
MaxCount == 2       \* deliveries of one staged path are counted up to MaxCount

Ids == 1..MaxId
MsgIds == 1..MaxMsg

\* OWNER_CHAT_ID of bot.py and owner_chat_id of login.py: the same variable
\* of the environment
OWNER_CHAT_ID == 1
owner_chat_id == OWNER_CHAT_ID

\* ------------------------------------------------------- text as sequences
\* A string is a sequence of one-character strings.
Letters == <<"a","b","c","d","e","f","g","h","i","j","k","l","m",
             "n","o","p","q","r","s","t","u","v","w","x","y","z">>
Caps    == <<"A","B","C","D","E","F","G","H","I","J","K","L","M",
             "N","O","P","Q","R","S","T","U","V","W","X","Y","Z">>

\* str.lower() on one character
LowerChar(c) ==
    IF \E i \in 1..Len(Caps) : Caps[i] = c
    THEN Letters[CHOOSE i \in 1..Len(Caps) : Caps[i] = c]
    ELSE c

UpperChar(c) ==
    IF \E i \in 1..Len(Letters) : Letters[i] = c
    THEN Caps[CHOOSE i \in 1..Len(Letters) : Letters[i] = c]
    ELSE c

\* str.lower()
Lower(s) == [i \in 1..Len(s) |-> LowerChar(s[i])]

Whitespace == {" ", "\n", "\t"}

RECURSIVE LStrip(_)
LStrip(s) == IF s # <<>> /\ Head(s) \in Whitespace THEN LStrip(Tail(s)) ELSE s

RECURSIVE RStrip(_)
RStrip(s) ==
    IF s # <<>> /\ s[Len(s)] \in Whitespace
    THEN RStrip(SubSeq(s, 1, Len(s) - 1))
    ELSE s

\* str.strip()
Strip(s) == RStrip(LStrip(s))

\* --------------------------------------------- allowed extensions (bot.py)
photo_ext     == { <<".","j","p","g">>, <<".","j","p","e","g">>, <<".","p","n","g">> }
video_ext     == { <<".","m","p","4">>, <<".","m","o","v">>, <<".","a","v","i">>,
                   <<".","m","k","v">> }
animation_ext == { <<".","g","i","f">>, <<".","w","e","b","m">> }
sticker_ext   == { <<".","w","e","b","p">> }
voice_ext     == { <<".","o","g","a">> }
music_ext     == { <<".","m","p","3">> }
allowed_extensions ==
    photo_ext \cup video_ext \cup animation_ext \cup sticker_ext \cup voice_ext
        \cup music_ext

Mp4 == <<".","m","p","4">>

\* ------------------------------------------------------- has_audio (bot.py)
\* One run of the probe: raised = subprocess.run itself raised (the probe
\* could not be started); otherwise returncode and stdout of the process.
\* With "-v error" the probe's diagnostics go to stderr, so a failing probe
\* has an empty stdout.
ProbeOk       == [raised |-> FALSE, returncode |-> 0, stdout |-> <<"a","a","c","\n">>]
ProbeSilent   == [raised |-> FALSE, returncode |-> 0, stdout |-> <<>>]
ProbeBlank    == [raised |-> FALSE, returncode |-> 0, stdout |-> <<"\n">>]
ProbeExit1    == [raised |-> FALSE, returncode |-> 1, stdout |-> <<>>]
ProbeOdd      == [raised |-> FALSE, returncode |-> 0, stdout |-> <<"?","\n">>]
ProbeOddExit1 == [raised |-> FALSE, returncode |-> 1, stdout |-> <<"?","\n">>]
ProbeRaised   == [raised |-> TRUE,  returncode |-> 0, stdout |-> <<>>]
NoProbe       == [raised |-> FALSE, returncode |-> 0, stdout |-> <<"-">>]

ProbeResults ==
    { ProbeOk, ProbeSilent, ProbeBlank, ProbeExit1, ProbeOdd, ProbeOddExit1,
      ProbeRaised }

has_audio(p) == IF p.raised THEN TRUE ELSE Strip(p.stdout) # <<>>

\* ------------------------------------------- classification (send_media)
\* method_name for the lower-cased suffix ext; audio is has_audio's answer
\* (consulted for .mp4 only).
MethodName_m(ext, audio) ==
    IF ext \in photo_ext THEN "photo"
    ELSE IF ext \in video_ext THEN "video"
    ELSE IF ext \in voice_ext THEN "voice"
    ELSE IF ext \in music_ext THEN "audio"
    ELSE IF ext = <<".","g","i","f">> THEN "animation"
    ELSE IF ext \in sticker_ext \cup animation_ext THEN "sticker"
    ELSE "document"

MethodName(ext, audio) ==
    IF ext \in photo_ext THEN "photo"
    ELSE IF ext \in video_ext THEN
        IF ext = Mp4 THEN (IF audio THEN "video" ELSE "animation") ELSE "video"
    ELSE IF ext \in voice_ext THEN "voice"
    ELSE IF ext \in music_ext THEN "audio"
    ELSE IF ext \in animation_ext THEN "animation"
    ELSE IF ext \in sticker_ext THEN "sticker"
    ELSE "document"

\* caption = None: falsy, as the empty string is
NoCaption == <<>>

\* caption of send_media: None for a sticker, "<code>name</code>" otherwise
\* (the name stands for html.escape(file_path.name))
Caption(method, name) ==
    IF method # "sticker" THEN <<"<code>", name, "</code>">> ELSE NoCaption

\* filename handed to InputFile
NewFilename(ext, method, path) ==
    IF (ext = Mp4 \/ ext = <<".","w","e","b","m">>) /\ method = "animation"
    THEN [stem |-> path.stem, ext |-> <<".","g","i","f">>]
    ELSE [stem |-> path.stem, ext |-> path.ext]

\* ------------------------------------------------------------------ state
VARIABLES
    chat_ids,       \* bot.py: the in-memory recipient list
    chatFile,       \* chat_ids.json: its content
    blockedFile,    \* blocked_chats.json: its content
    waiting,        \* login.py: wait_for_owner_json's future is not yet done
    staging,        \* entries of the downloads folder
    writing,        \* entries whose download is still in progress
    pc,             \* where the monitor task of bot.py stands
    items,          \* monitor_folder: entries of the listing not yet visited
    file_path,      \* send_media: its argument
    ext,            \* send_media: file_path.suffix.lower()
    probe,          \* send_media: what the audio probe returned
    method_name,    \* send_media
    caption,        \* send_media
    pending_ids,    \* send_media
    attempt,        \* send_media: the loop variable of the passes
    todo,           \* send_media: list(pending_ids) not yet iterated in this pass
    cur,            \* send_media: the send_method call being awaited
    tried,          \* history: delivery attempts per recipient, this invocation
    passStart,      \* history: pending_ids when the current pass began
    passTried,      \* history: delivery attempts per recipient, this pass
    delivered,      \* history: successful deliveries per recipient, this invocation
    unlinks,        \* history: file_path.unlink() calls of this invocation
    removed,        \* history: of those, the ones that removed the file
    phase,          \* history: "none", "active" or "done" (the last invocation)
    delOk,          \* history: did the monitor's last unlink / rmtree go through
    startIds,       \* history: set(chat_ids) when the invocation was entered
    total,          \* history: deliveries per recipient of the path file_path,
                    \*          over all the invocations on it
    clean,          \* history: no delivery attempt of those invocations failed
    event,          \* history: the update last handled by a handler
    reply,          \* history: what that handler replied
    round           \* history: an add (ban) and the remove (unban) that followed it

regVars    == <<chat_ids, chatFile>>
loginVars  == <<blockedFile, waiting>>
dirVars    == <<staging, writing>>
localVars  == <<file_path, ext, probe, method_name, caption, pending_ids, attempt,
                todo, cur>>
histVars   == <<tried, passStart, passTried, delivered, unlinks, removed, phase>>
moreVars   == <<delOk, startIds, total, clean>>
engineVars == <<pc, items, localVars, histVars, moreVars>>
updVars    == <<event, reply, round>>
vars       == <<regVars, loginVars, dirVars, engineVars, updVars>>

\* the points where the monitor task is suspended in an await
AwaitPoints == {"poll", "settle", "sending", "backoff"}

\* the positions of the monitor task inside send_media
InSendMedia == {"settle", "loop", "chat", "sending", "backoff", "finish"}

Zero == [i \in Ids |-> 0]

\* set(chat_ids)
Range(s) == { s[i] : i \in 1..Len(s) }

\* the lists over Ids of at most n entries
Lists(n) == UNION { [1..k -> Ids] : k \in 0..n }

\* an entry of the downloads folder: a file or (dir) a directory
File(stem, e) == [stem |-> stem, ext |-> e, dir |-> FALSE]
Dir(stem) == [stem |-> stem, ext |-> <<>>, dir |-> TRUE]

NoFile == File(<<>>, <<>>)
NoCall == [chat |-> 0]
NoEvent == [op |-> "none", caller |-> 0, arg |-> <<>>, tick |-> 0, w |-> "none"]
NoReply == "none"
NoRound == [store |-> "none", x |-> 0, stage |-> "none", member |-> FALSE,
            memBefore |-> {}, before |-> {}, memAfter |-> {}, after |-> {},
            failed |-> FALSE]

\* the history of an add (ban) of x: the list held and the list on disk before it
Added(store, x, mem, disk) ==
    [store |-> store, x |-> x, stage |-> "added", member |-> x \in mem,
     memBefore |-> mem, before |-> disk, memAfter |-> {}, after |-> {},
     failed |-> FALSE]

\* the history after a remove (unban) of x on that store: the list held and
\* the list on disk after it, and whether its write failed
Removed(store, x, mem, disk, failed) ==
    IF round.store = store /\ round.stage = "added" /\ round.x = x
    THEN [round EXCEPT !.stage = "removed", !.memAfter = mem, !.after = disk,
                       !.failed = failed]
    ELSE IF round.store = store THEN NoRound ELSE round

\* the history after the list of that store was replaced
Replaced(store) == IF round.store = store THEN NoRound ELSE round

\* ------------------------------------------------------- monitor_folder
IsAllowed_m(suffix) == TRUE

\* item.suffix.lower() in allowed_extensions
IsAllowed(suffix) == Lower(suffix) \in allowed_extensions

\* for item in downloads_folder.iterdir(): the listing is taken once
monitor_list ==
    /\ pc = "poll"
    /\ items' = staging
    /\ pc' = "iter"
    /\ UNCHANGED <<regVars, loginVars, dirVars, localVars, histVars, moreVars, updVars>>

Resume_m(ok) == IF ok THEN "iter" ELSE "ended"

\* where the monitor task stands after item.unlink(), shutil.rmtree(item) or
\* file_path.unlink(): an exception of theirs is caught and logged, so at the
\* next entry of the listing either way
Resume(ok) == "iter"

AtEntry_m == pc = "iter" \/ pc = "settle" \/ pc = "backoff"

\* the for loop of monitor_folder is at an entry of the listing: the
\* send_media it awaited for the entry before has returned
AtEntry == pc = "iter"

\* the body of the for loop for one entry; p is the probe's result and
\* delok whether item.unlink() or shutil.rmtree(item) goes through
monitor_item(item, p, delok) ==
    /\ AtEntry
    /\ item \in items
    /\ items' = items \ {item}
    /\ IF item \notin staging
       THEN \* gone since the listing: neither is_file() nor is_dir()
            /\ pc' = "iter"
            /\ UNCHANGED <<dirVars, localVars, histVars, moreVars>>
       ELSE IF ~item.dir /\ IsAllowed(item.ext)
       THEN \* send_media(item), up to its first await
            /\ file_path' = item
            /\ ext' = Lower(item.ext)
            /\ probe' = IF Lower(item.ext) = Mp4 THEN p ELSE NoProbe
            /\ method_name' = MethodName(Lower(item.ext), has_audio(p))
            /\ pc' = "settle"
            /\ tried' = Zero /\ passTried' = Zero /\ delivered' = Zero
            /\ passStart' = {} /\ unlinks' = 0 /\ removed' = 0
            /\ phase' = "active"
            /\ startIds' = Range(chat_ids)
            /\ total' = IF item = file_path THEN total ELSE Zero
            /\ clean' = IF item = file_path THEN clean ELSE TRUE
            /\ UNCHANGED <<dirVars, caption, pending_ids, attempt, todo, cur, delOk>>
       ELSE \* a file that is not allowed: item.unlink(); a directory:
            \* shutil.rmtree(item); an exception of either is logged
            /\ staging' = IF delok THEN staging \ {item} ELSE staging
            /\ writing' = IF delok THEN writing \ {item} ELSE writing
            /\ delOk' = delok
            /\ pc' = Resume(delok)
            /\ UNCHANGED <<localVars, histVars, startIds, total, clean>>
    /\ UNCHANGED <<regVars, loginVars, updVars>>

\* the for loop is over: await asyncio.sleep(5)
monitor_sleep ==
    /\ pc = "iter"
    /\ items = {}
    /\ pc' = "poll"
    /\ UNCHANGED <<regVars, loginVars, dirVars, items, localVars, histVars, moreVars,
                   updVars>>

\* ------------------------------------------------------------ send_media
InRange_m(a) == a \in 1..4

\* for attempt in range(1, 4): does the loop run its body for this value
InRange(a) == a \in 1..3

Snapshot_m(list) == { list[i] : i \in 1..(Len(list) - 1) }

\* pending_ids = set(chat_ids)
Snapshot(list) == Range(list)

\* asyncio.sleep(3) is over: caption, pending_ids, the loop is entered
settle_done ==
    /\ pc = "settle"
    /\ caption' = Caption(method_name, file_path)
    /\ pending_ids' = Snapshot(chat_ids)
    /\ attempt' = 1
    /\ pc' = "loop"
    /\ UNCHANGED <<regVars, loginVars, dirVars, items, file_path, ext, probe,
                   method_name, todo, cur, histVars, moreVars, updVars>>

\* the head of the for loop over the passes, with its break
loop_head ==
    /\ pc = "loop"
    /\ IF ~InRange(attempt) \/ pending_ids = {}
       THEN /\ pc' = "finish"
            /\ UNCHANGED <<todo, passStart, passTried>>
       ELSE /\ todo' = pending_ids
            /\ passStart' = pending_ids
            /\ passTried' = Zero
            /\ pc' = "chat"
    /\ UNCHANGED <<regVars, loginVars, dirVars, items, file_path, ext, probe,
                   method_name, caption, pending_ids, attempt, cur, tried,
                   delivered, unlinks, removed, phase, moreVars, updVars>>

AfterError_m(t) == {}

\* the chats left to the pass after an except clause has logged an error
AfterError(t) == t

\* for chat_id in list(pending_ids): the try block up to await send_method
chat_step(c) ==
    /\ pc = "chat"
    /\ c \in todo
    /\ tried' = [tried EXCEPT ![c] = @ + 1]
    /\ passTried' = [passTried EXCEPT ![c] = @ + 1]
    /\ IF file_path \in staging
       THEN /\ cur' = [chat |-> c, method |-> method_name,
                       filename |-> NewFilename(ext, method_name, file_path),
                       caption |-> caption,
                       captioned |-> caption # NoCaption]
            /\ todo' = todo \ {c}
            /\ pc' = "sending"
       ELSE \* open() raises; the except clause logs it
            /\ todo' = AfterError(todo \ {c})
            /\ pc' = "chat"
            /\ UNCHANGED cur
    /\ clean' = (clean /\ file_path \in staging)
    /\ UNCHANGED <<regVars, loginVars, dirVars, items, file_path, ext, probe,
                   method_name, caption, pending_ids, attempt, passStart,
                   delivered, unlinks, removed, phase, delOk, startIds, total,
                   updVars>>

\* pending_ids after a successful send to c
AfterSent_m(pending, c) == pending

AfterSent(pending, c) == pending \ {c}

\* await send_method(...) returns (ok) or raises (TelegramError or other)
send_result(ok) ==
    /\ pc = "sending"
    /\ IF ok
       THEN /\ pending_ids' = AfterSent(pending_ids, cur.chat)
            /\ delivered' = [delivered EXCEPT ![cur.chat] = @ + 1]
            /\ total' = [total EXCEPT ![cur.chat] = IF @ < MaxCount THEN @ + 1 ELSE @]
            /\ UNCHANGED todo
       ELSE /\ todo' = AfterError(todo)
            /\ UNCHANGED <<pending_ids, delivered, total>>
    /\ clean' = (clean /\ ok)
    /\ cur' = NoCall
    /\ pc' = "chat"
    /\ UNCHANGED <<regVars, loginVars, dirVars, items, file_path, ext, probe,
                   method_name, caption, attempt, tried, passStart, passTried,
                   unlinks, removed, phase, delOk, startIds, updVars>>

\* the inner loop is over: if pending_ids: await asyncio.sleep(1)
end_pass ==
    /\ pc = "chat"
    /\ todo = {}
    /\ IF pending_ids # {}
       THEN pc' = "backoff" /\ UNCHANGED attempt
       ELSE pc' = "loop" /\ attempt' = attempt + 1
    /\ UNCHANGED <<regVars, loginVars, dirVars, items, file_path, ext, probe,
                   method_name, caption, pending_ids, todo, cur, histVars, moreVars,
                   updVars>>

\* asyncio.sleep(1) is over
backoff_done ==
    /\ pc = "backoff"
    /\ attempt' = attempt + 1
    /\ pc' = "loop"
    /\ UNCHANGED <<regVars, loginVars, dirVars, items, file_path, ext, probe,
                   method_name, caption, pending_ids, todo, cur, histVars, moreVars,
                   updVars>>

\* the log of the outcome, file_path.unlink() in its try block, return
finish_m(unlinkOk) ==
    /\ pc = "finish"
    /\ unlinks' = IF pending_ids = {} THEN unlinks + 1 ELSE unlinks
    /\ IF file_path \in staging /\ unlinkOk /\ pending_ids = {}
       THEN /\ staging' = staging \ {file_path}
            /\ writing' = writing \ {file_path}
            /\ removed' = removed + 1
       ELSE UNCHANGED <<staging, writing, removed>>
    /\ phase' = "done"
    /\ pc' = "iter"
    /\ UNCHANGED <<regVars, loginVars, items, localVars, tried, passStart,
                   passTried, delivered, moreVars, updVars>>

finish_sent_m(unlinkOk) ==
    /\ pc = "finish"
    /\ unlinks' = IF delivered # Zero THEN unlinks + 1 ELSE unlinks
    /\ IF file_path \in staging /\ unlinkOk /\ delivered # Zero
       THEN /\ staging' = staging \ {file_path}
            /\ writing' = writing \ {file_path}
            /\ removed' = removed + 1
       ELSE UNCHANGED <<staging, writing, removed>>
    /\ phase' = "done"
    /\ pc' = "iter"
    /\ UNCHANGED <<regVars, loginVars, items, localVars, tried, passStart,
                   passTried, delivered, moreVars, updVars>>

\* what send_media logs after the loop: an error naming the identifiers still
\* pending, or "Successfully sent ... to all chats"
Outcome == IF pending_ids # {} THEN "failed" ELSE "success"

finish(unlinkOk) ==
    /\ pc = "finish"
    /\ unlinks' = unlinks + 1
    /\ IF file_path \in staging /\ unlinkOk
       THEN /\ staging' = staging \ {file_path}
            /\ writing' = writing \ {file_path}
            /\ removed' = removed + 1
       ELSE UNCHANGED <<staging, writing, removed>>
    /\ phase' = "done"
    /\ pc' = Resume(file_path \in staging /\ unlinkOk)
    /\ UNCHANGED <<regVars, loginVars, items, localVars, tried, passStart,
                   passTried, delivered, moreVars, updVars>>

\* ------------------------------------------------- update_chat_ids_file
\* what a file holds: a JSON list of identifiers, other valid JSON, or text
\* that does not parse
ListFile(list) == [kind |-> "list", val |-> list]
ObjectFile  == [kind |-> "object", val |-> <<>>]
GarbageFile == [kind |-> "garbage", val |-> <<>>]
MissingFile == [kind |-> "missing", val |-> <<>>]

\* the list a file holds: load_blocked_chat_ids() of login.py returns it, and
\* so does the load of chat_ids.json when bot.py starts
Loaded(f) == IF f.kind = "list" THEN f.val ELSE <<>>

\* how a rewrite of chat_ids.json ends: the dump goes through; open() raises
\* and the file is left alone; open() has truncated the file and the dump
\* raises
WriteOutcomes == {"ok", "refused", "torn"}

Written_m(list, old, w) == ListFile(list)

\* chat_ids.json after update_chat_ids_file(): both exceptions are logged
Written(list, old, w) ==
    CASE w = "ok" -> ListFile(list)
      [] w = "refused" -> old
      [] OTHER -> GarbageFile

\* the update being handled, for the history
Ev(op, caller, arg) ==
    [op |-> op, caller |-> caller, arg |-> arg, tick |-> 1 - event.tick, w |-> "none"]

\* the same for a handler that calls update_chat_ids_file(), with how the
\* rewrite ended
EvW(op, caller, arg, w) == [Ev(op, caller, arg) EXCEPT !.w = w]

\* ------------------------------------------------------ command arguments
Digits == <<"0","1","2","3","4","5","6","7","8","9">>

IsDigit(c) == \E i \in 1..Len(Digits) : Digits[i] = c

DigitVal(c) == (CHOOSE i \in 1..Len(Digits) : Digits[i] = c) - 1

\* does int(tok) return (an optional sign, then digits)
IsInt(tok) ==
    LET body == IF tok # <<>> /\ (Head(tok) = "-" \/ Head(tok) = "+") THEN Tail(tok) ELSE tok
    IN  body # <<>> /\ \A i \in 1..Len(body) : IsDigit(body[i])

RECURSIVE DigitsVal(_)
DigitsVal(d) ==
    IF d = <<>> THEN 0
    ELSE 10 * DigitsVal(SubSeq(d, 1, Len(d) - 1)) + DigitVal(d[Len(d)])

\* int(tok)
IntOf(tok) ==
    IF Head(tok) = "-" THEN 0 - DigitsVal(Tail(tok))
    ELSE IF Head(tok) = "+" THEN DigitsVal(Tail(tok))
    ELSE DigitsVal(tok)

\* the decimal text of an identifier
Tok(n) == <<Digits[n + 1]>>

\* argument lists of a command: none, one identifier, junk, one too many
ArgLists ==
    { <<>>, <<<<"x">>>>, <<<<"1", "x">>>> }
        \cup { <<Tok(n)>> : n \in Ids }
        \cup { <<Tok(n), Tok(n)>> : n \in {1} }

\* list.remove(x): drops the first occurrence
RECURSIVE RemoveFirst(_, _)
RemoveFirst(list, x) ==
    IF list = <<>> THEN <<>>
    ELSE IF Head(list) = x THEN Tail(list)
    ELSE <<Head(list)>> \o RemoveFirst(Tail(list), x)

\* ----------------------------------------------- owner commands (bot.py)
IsOwner_m(chat) == TRUE

\* update.effective_chat.id != OWNER_CHAT_ID: return
IsOwner(chat) == chat = OWNER_CHAT_ID

RemoveId_m(list, x) == list

\* add_command: the list after /add x
AddId(list, x) == IF x \in Range(list) THEN list ELSE Append(list, x)

\* remove_command: the list after /remove x
RemoveId(list, x) == IF x \in Range(list) THEN RemoveFirst(list, x) ELSE list

add_command(chat, args, w) ==
    /\ pc \in AwaitPoints
    /\ event' = IF IsOwner(chat) /\ args # <<>> /\ IsInt(args[1])
                   /\ IntOf(args[1]) \notin Range(chat_ids)
                THEN EvW("add", chat, args, w)
                ELSE Ev("add", chat, args)
    /\ round' = IF IsOwner(chat) /\ args # <<>> /\ IsInt(args[1])
                THEN Added("registry", IntOf(args[1]), Range(chat_ids),
                           Range(Loaded(chatFile)))
                ELSE round
    /\ IF ~IsOwner(chat)
       THEN reply' = NoReply /\ UNCHANGED regVars
       ELSE IF args = <<>>
       THEN reply' = "usage" /\ UNCHANGED regVars
       ELSE IF ~IsInt(args[1])
       THEN reply' = "invalid" /\ UNCHANGED regVars
       ELSE IF IntOf(args[1]) \in Range(chat_ids)
       THEN reply' = "already" /\ UNCHANGED regVars
       ELSE /\ Len(chat_ids) < MaxLen
            /\ chat_ids' = AddId(chat_ids, IntOf(args[1]))
            /\ chatFile' = Written(chat_ids', chatFile, w)
            /\ reply' = "document"
    /\ UNCHANGED <<loginVars, dirVars, engineVars>>

remove_command(chat, args, w) ==
    /\ pc \in AwaitPoints
    /\ event' = IF IsOwner(chat) /\ args # <<>> /\ IsInt(args[1])
                   /\ IntOf(args[1]) \in Range(chat_ids)
                THEN EvW("remove", chat, args, w)
                ELSE Ev("remove", chat, args)
    /\ IF ~IsOwner(chat)
       THEN reply' = NoReply /\ UNCHANGED regVars
       ELSE IF args = <<>>
       THEN reply' = "usage" /\ UNCHANGED regVars
       ELSE IF ~IsInt(args[1])
       THEN reply' = "invalid" /\ UNCHANGED regVars
       ELSE IF IntOf(args[1]) \in Range(chat_ids)
       THEN /\ chat_ids' = RemoveId(chat_ids, IntOf(args[1]))
            /\ chatFile' = Written(chat_ids', chatFile, w)
            /\ reply' = "document"
       ELSE reply' = "notfound" /\ UNCHANGED regVars
    /\ round' = IF IsOwner(chat) /\ args # <<>> /\ IsInt(args[1])
                THEN Removed("registry", IntOf(args[1]), Range(chat_ids'),
                             Range(Loaded(chatFile')),
                             IntOf(args[1]) \in Range(chat_ids) /\ w # "ok")
                ELSE round
    /\ UNCHANGED <<loginVars, dirVars, engineVars>>

list_command(chat) ==
    /\ pc \in AwaitPoints
    /\ event' = Ev("list", chat, <<>>)
    /\ reply' = IF IsOwner(chat) THEN "files" ELSE NoReply
    /\ UNCHANGED round
    /\ UNCHANGED <<regVars, loginVars, dirVars, engineVars>>

\* clear_downloads_folder: kept are the entries whose unlink raises
delete_command(chat, kept) ==
    /\ pc \in AwaitPoints
    /\ kept \subseteq staging
    /\ event' = Ev("delete", chat, <<>>)
    /\ UNCHANGED round
    /\ IF IsOwner(chat)
       THEN /\ staging' = kept
            /\ writing' = writing \cap kept
            /\ reply' = "cleared"
       ELSE reply' = NoReply /\ UNCHANGED dirVars
    /\ UNCHANGED <<regVars, loginVars, engineVars>>

\* ------------------------------------------------------ uploaded documents
Json == <<".","j","s","o","n">>

Payloads == { ListFile(l) : l \in Lists(MaxLen) } \cup { ObjectFile, GarbageFile }

\* json.loads(...) returns and isinstance(data, list)
AcceptsPayload(content) == content.kind = "list"

json_document_handler(chat, doc, w) ==
    /\ pc \in AwaitPoints
    /\ Lower(doc.name) = Json     \* filters.Document.FileExtension("json")
    /\ event' = IF IsOwner(chat) /\ doc.name = Json /\ AcceptsPayload(doc.content)
                THEN EvW("replace", chat, <<doc.content.kind>>, w)
                ELSE Ev("replace", chat, <<doc.content.kind>>)
    /\ round' = IF IsOwner(chat) /\ doc.name = Json /\ AcceptsPayload(doc.content)
                THEN Replaced("registry")
                ELSE round
    /\ IF ~IsOwner(chat)
       THEN reply' = NoReply /\ UNCHANGED regVars
       ELSE IF doc.name # Json
       THEN reply' = "notjson" /\ UNCHANGED regVars
       ELSE IF AcceptsPayload(doc.content)
       THEN /\ chat_ids' = doc.content.val
            /\ chatFile' = Written(chat_ids', chatFile, w)
            /\ reply' = "document"
       ELSE /\ reply' = IF doc.content.kind = "garbage" THEN "parsefail" ELSE "notalist"
            /\ UNCHANGED regVars
    /\ UNCHANGED <<loginVars, dirVars, engineVars>>

\* ------------------------------------------------- blocklist (login.py)
\* load_blocked_chat_ids(): the file it leaves (an empty list is written when
\* the file is missing, does not parse or holds no list)
AfterLoad(f) == IF f.kind = "list" THEN f ELSE ListFile(<<>>)

IsBlocked_m(blocked, chat, sender) == chat \in Range(blocked)

\* (event.chat_id in blocked) or (sender_id and sender_id in blocked);
\* sender 0 stands for a sender_id of None
IsBlocked(blocked, chat, sender) ==
    chat \in Range(blocked) \/ (sender # 0 /\ sender \in Range(blocked))

RECURSIVE MediaType_m(_)
MediaType_m(attrs) ==
    IF attrs = <<>> THEN "none"
    ELSE IF Head(attrs) = "animated" THEN "gif"
    ELSE IF Head(attrs) = "video" THEN "video"
    ELSE MediaType_m(Tail(attrs))

\* the loop over event.message.document.attributes
RECURSIVE MediaType(_)
MediaType(attrs) ==
    IF attrs = <<>> THEN "none"
    ELSE IF Head(attrs) = "animated" THEN "gif"
    ELSE IF Head(attrs) = "video"
         THEN (IF MediaType(Tail(attrs)) = "gif" THEN "gif" ELSE "video")
    ELSE MediaType(Tail(attrs))

\* file_name of new_media_handler, as <<identifier, message id, suffix>>
FileName(chat, sender, id, attrs) ==
    << IF sender # 0 THEN sender ELSE chat,
       id,
       CASE MediaType(attrs) = "gif" -> "-gif"
         [] MediaType(attrs) = "video" -> "-video"
         [] OTHER -> "" >>

\* new_media_handler up to its await: m is the message, m.ext the extension
\* the client gives the download
new_media_handler(m) ==
    /\ event' = Ev("media", m.sender, <<m.chat, m.id, m.attrs>>)
    /\ reply' = NoReply
    /\ UNCHANGED round
    /\ blockedFile' = AfterLoad(blockedFile)
    /\ IF IsBlocked(Loaded(blockedFile), m.chat, m.sender)
       THEN UNCHANGED dirVars
       ELSE LET f == File(FileName(m.chat, m.sender, m.id, m.attrs), m.ext)
            IN  /\ Cardinality(staging \cup {f}) <= MaxStaged
                /\ staging' = staging \cup {f}
                /\ writing' = writing \cup {f}
    /\ UNCHANGED <<regVars, waiting, engineVars>>

\* await event.message.download_media(...) returns: the file is complete
download_done(f) ==
    /\ f \in writing
    /\ writing' = writing \ {f}
    /\ UNCHANGED <<regVars, loginVars, staging, engineVars, updVars>>

\* event.sender_id != owner_chat_id: return
IsOwnerSender(sender) == sender = owner_chat_id

\* args are the words after the command; saveOk: save_blocked_chat_ids returns
ban_handler(sender, args, saveOk) ==
    /\ event' = Ev("ban", sender, args)
    /\ round' = IF IsOwnerSender(sender) /\ Len(args) + 1 = 2 /\ IsInt(args[1])
                THEN Added("blocklist", IntOf(args[1]), Range(Loaded(blockedFile)),
                           Range(Loaded(blockedFile)))
                ELSE round
    /\ IF ~IsOwnerSender(sender)
       THEN reply' = NoReply /\ UNCHANGED blockedFile
       ELSE IF Len(args) + 1 # 2
       THEN reply' = "usage" /\ UNCHANGED blockedFile
       ELSE IF ~IsInt(args[1])
       THEN reply' = "invalid" /\ UNCHANGED blockedFile
       ELSE IF IntOf(args[1]) \in Range(Loaded(blockedFile))
       THEN reply' = "already" /\ blockedFile' = AfterLoad(blockedFile)
       ELSE /\ Len(Loaded(blockedFile)) < MaxLen
            /\ IF saveOk
               THEN /\ blockedFile' = ListFile(Append(Loaded(blockedFile), IntOf(args[1])))
                    /\ reply' = "banned"
               ELSE /\ blockedFile' = AfterLoad(blockedFile)
                    /\ reply' = NoReply
    /\ UNCHANGED <<regVars, waiting, dirVars, engineVars>>

\* blocked.remove(target_chat_id)
Unbanned(list, x) == RemoveFirst(list, x)

unban_handler(sender, args, saveOk) ==
    /\ event' = Ev("unban", sender, args)
    /\ IF ~IsOwnerSender(sender)
       THEN reply' = NoReply /\ UNCHANGED blockedFile
       ELSE IF Len(args) + 1 # 2
       THEN reply' = "usage" /\ UNCHANGED blockedFile
       ELSE IF ~IsInt(args[1])
       THEN reply' = "invalid" /\ UNCHANGED blockedFile
       ELSE IF IntOf(args[1]) \notin Range(Loaded(blockedFile))
       THEN reply' = "notbanned" /\ blockedFile' = AfterLoad(blockedFile)
       ELSE IF saveOk
       THEN /\ blockedFile' = ListFile(Unbanned(Loaded(blockedFile), IntOf(args[1])))
            /\ reply' = "unbanned"
       ELSE /\ blockedFile' = AfterLoad(blockedFile)
            /\ reply' = NoReply
    /\ round' = IF IsOwnerSender(sender) /\ Len(args) + 1 = 2 /\ IsInt(args[1])
                THEN Removed("blocklist", IntOf(args[1]),
                             Range(Loaded(blockedFile')),
                             Range(Loaded(blockedFile')),
                             IntOf(args[1]) \in Range(Loaded(blockedFile)) /\ ~saveOk)
                ELSE round
    /\ UNCHANGED <<regVars, waiting, dirVars, engineVars>>

\* blocked_chats.json after event.message.download_media(file=BLOCKED_CHATS_FILE)
Downloaded(old, content) == content

\* json_handler of wait_for_owner_json followed, once the future is set, by
\* the download
wait_for_owner_json(sender, doc) ==
    /\ waiting
    /\ event' = Ev("blocklist", sender, <<doc.content.kind>>)
    /\ reply' = NoReply
    /\ round' = IF IsOwnerSender(sender) /\ (Lower(doc.name) = Json \/ doc.mime_json)
                THEN Replaced("blocklist")
                ELSE round
    /\ IF IsOwnerSender(sender) /\ (Lower(doc.name) = Json \/ doc.mime_json)
       THEN /\ blockedFile' = Downloaded(blockedFile, doc.content)
            /\ waiting' = FALSE
       ELSE UNCHANGED <<blockedFile, waiting>>
    /\ UNCHANGED <<regVars, dirVars, engineVars>>

\* ------------------------------------------------------------ the inputs
\* every spelling of s in upper and lower case
CaseVariants(s) ==
    { [i \in 1..Len(s) |-> IF m[i] THEN UpperChar(s[i]) ELSE s[i]] :
        m \in [1..Len(s) -> BOOLEAN] }

Exe == <<".","e","x","e">>

\* suffixes outside the allowed set (the last: a name without a suffix)
OtherExts == { Exe, Json, <<".","m","p">>, <<>> }

AllExts == UNION { CaseVariants(e) : e \in allowed_extensions } \cup OtherExts

Docs ==
    { [name |-> n, mime_json |-> j, content |-> c] :
        n \in { Json, <<".","J","S","O","N">>, <<".","t","x","t">> },
        j \in BOOLEAN, c \in Payloads }

AttrLists ==
    { <<>>, <<"video">>, <<"animated">>, <<"video", "animated">>,
      <<"animated", "video">>, <<"filename", "video">> }

\* messages with media: sender 0 is a sender_id of None
Messages(chats, senders, exts, attrs) ==
    { [chat |-> c, sender |-> s, id |-> i, attrs |-> a, ext |-> e] :
        c \in chats, s \in senders, i \in MsgIds, a \in attrs, e \in exts }

\* ------------------------------------------------------- initial states
\* bot.py after its main() has cleared the downloads folder, chat_ids loaded
\* from chat_ids.json; login.py waiting for the owner's blocklist
InitRest ==
    /\ waiting = TRUE
    /\ writing = {}
    /\ pc = "poll"
    /\ items = {}
    /\ file_path = NoFile
    /\ ext = <<>>
    /\ probe = NoProbe
    /\ method_name = "none"
    /\ caption = NoCaption
    /\ pending_ids = {}
    /\ attempt = 0
    /\ todo = {}
    /\ cur = NoCall
    /\ tried = Zero /\ passTried = Zero /\ delivered = Zero
    /\ passStart = {} /\ unlinks = 0 /\ removed = 0
    /\ phase = "none"
    /\ delOk = TRUE /\ startIds = {} /\ total = Zero /\ clean = TRUE
    /\ event = NoEvent
    /\ reply = NoReply
    /\ round = NoRound

Init ==
    /\ chat_ids \in Lists(MaxLen)
    /\ chatFile = ListFile(chat_ids)
    /\ blockedFile = MissingFile
    /\ staging = {}
    /\ InitRest

\* the monitor task of bot.py
Engine(probes) ==
    \/ monitor_list
    \/ \E item \in items, p \in probes, ok \in BOOLEAN : monitor_item(item, p, ok)
    \/ monitor_sleep
    \/ settle_done
    \/ loop_head
    \/ \E c \in todo : chat_step(c)
    \/ \E ok \in BOOLEAN : send_result(ok)
    \/ end_pass
    \/ backoff_done
    \/ \E ok \in BOOLEAN : finish(ok)

\* the probe on the videos of the relay at work: an audio stream, or none
RelayProbes == { ProbeOk, ProbeSilent }

\* what arrives while the relay is at work: a video and a file that is not
\* allowed, from one chat
RelayMessages == Messages({MaxId}, {0}, {Mp4, Exe}, {<<>>})

\* The relay at work: the monitor and the engine, media arriving from one
\* chat, and the owner clearing the downloads folder.
Next ==
    \/ Engine(RelayProbes)
    \/ \E m \in RelayMessages : new_media_handler(m)
    \/ \E f \in writing : download_done(f)
    \/ delete_command(OWNER_CHAT_ID, {})

Spec == Init /\ [][Next]_vars

\* The classifier on every spelling of every suffix: one complete file is in
\* the downloads folder, one recipient is registered, the monitor runs alone.
InitClassify ==
    /\ chat_ids = <<MaxId>>
    /\ chatFile = ListFile(chat_ids)
    /\ blockedFile = MissingFile
    /\ staging \in { {File(<<MaxId, 1, "">>, e)} : e \in AllExts }
    /\ InitRest

NextClassify == Engine(ProbeResults)

SpecClassify == InitClassify /\ [][NextClassify]_vars

\* login.py alone: media from every chat and sender, the owner's and other
\* senders' /ban and /unban, the blocklist upload.
InitLogin ==
    /\ chat_ids = <<>>
    /\ chatFile = ListFile(chat_ids)
    /\ blockedFile = MissingFile
    /\ staging = {}
    /\ InitRest

\* media from every chat, with and without a sender
LoginMessages == Messages(Ids, {0} \cup Ids, {Mp4}, {<<>>})

NextLogin ==
    \/ \E m \in LoginMessages : new_media_handler(m)
    \/ \E f \in writing : download_done(f)
    \/ \E c \in Ids, a \in ArgLists, ok \in BOOLEAN : ban_handler(c, a, ok)
    \/ \E c \in Ids, a \in ArgLists, ok \in BOOLEAN : unban_handler(c, a, ok)
    \/ \E c \in Ids, d \in Docs : wait_for_owner_json(c, d)

SpecLogin == InitLogin /\ [][NextLogin]_vars

\* The owner adding and removing identifiers in both lists, with writes that
\* may fail.
NextRoundTrip ==
    \/ \E n \in Ids, w \in WriteOutcomes : add_command(OWNER_CHAT_ID, <<Tok(n)>>, w)
    \/ \E n \in Ids, w \in WriteOutcomes : remove_command(OWNER_CHAT_ID, <<Tok(n)>>, w)
    \/ \E n \in Ids, ok \in BOOLEAN : ban_handler(owner_chat_id, <<Tok(n)>>, ok)
    \/ \E n \in Ids, ok \in BOOLEAN : unban_handler(owner_chat_id, <<Tok(n)>>, ok)

SpecRoundTrip == Init /\ [][NextRoundTrip]_vars

\* Every command of both programs from the owner and from everybody else,
\* with well-formed arguments, while media arrives.
CallerDocs ==
    { [name |-> Json, mime_json |-> TRUE, content |-> c] :
        c \in { ListFile(<<>>), ListFile(<<MaxId>>), ObjectFile } }

\* a video from one chat
CallerMessages == Messages({MaxId}, {0}, {Mp4}, {<<>>})

NextCallers ==
    \/ \E c \in Ids, n \in Ids : add_command(c, <<Tok(n)>>, "ok")
    \/ \E c \in Ids, n \in Ids : remove_command(c, <<Tok(n)>>, "ok")
    \/ \E c \in Ids : list_command(c)
    \/ \E c \in Ids : delete_command(c, {})
    \/ \E c \in Ids, d \in CallerDocs : json_document_handler(c, d, "ok")
    \/ \E m \in CallerMessages : new_media_handler(m)
    \/ \E c \in Ids, n \in Ids : ban_handler(c, <<Tok(n)>>, TRUE)
    \/ \E c \in Ids, n \in Ids : unban_handler(c, <<Tok(n)>>, TRUE)
    \/ \E c \in Ids, d \in CallerDocs : wait_for_owner_json(c, d)

SpecCallers == InitLogin /\ [][NextCallers]_vars

\* The monitor alone over a downloads folder that holds entries main() could
\* not delete: a video, a file that is not allowed and a directory.
FolderEntries ==
    { File(<<MaxId, 1, "">>, Mp4), File(<<MaxId, 1, "">>, Exe), Dir(<<MaxId, 1, "">>) }

InitMonitor ==
    /\ chat_ids \in Lists(MaxLen)
    /\ chatFile = ListFile(chat_ids)
    /\ blockedFile = MissingFile
    /\ staging \in { d \in SUBSET FolderEntries : Cardinality(d) <= MaxStaged }
    /\ InitRest

NextMonitor == Engine(RelayProbes)

SpecMonitor == InitMonitor /\ [][NextMonitor]_vars

\* the monitor task of bot.py when every unlink and rmtree goes through
EngineDeleting(probes) ==
    \/ monitor_list
    \/ \E item \in items, p \in probes : monitor_item(item, p, TRUE)
    \/ monitor_sleep
    \/ settle_done
    \/ loop_head
    \/ \E c \in todo : chat_step(c)
    \/ \E ok \in BOOLEAN : send_result(ok)
    \/ end_pass
    \/ backoff_done
    \/ finish(TRUE)

\* One video in the downloads folder, and the owner changing the registry
\* (/add and /remove of one identifier, uploads of a list) before and while
\* the engine is at work on it; the rewrites of chat_ids.json may fail.
InitSnapshot ==
    /\ chat_ids \in Lists(MaxLen)
    /\ chatFile = ListFile(chat_ids)
    /\ blockedFile = MissingFile
    /\ staging = { File(<<MaxId, 1, "">>, Mp4) }
    /\ InitRest

NextSnapshot ==
    \/ EngineDeleting(RelayProbes)
    \/ \E w \in WriteOutcomes : add_command(OWNER_CHAT_ID, <<Tok(MaxId)>>, w)
    \/ \E w \in WriteOutcomes : remove_command(OWNER_CHAT_ID, <<Tok(MaxId)>>, w)
    \/ \E d \in CallerDocs, w \in WriteOutcomes :
           json_document_handler(OWNER_CHAT_ID, d, w)

SpecSnapshot == InitSnapshot /\ [][NextSnapshot]_vars

\* The owner's commands on both lists with every kind of argument list and
\* the uploads of every payload; every rewrite goes through.
OwnerDocs == { [name |-> Json, mime_json |-> TRUE, content |-> c] : c \in Payloads }

NextRegistry ==
    \/ \E a \in ArgLists : add_command(OWNER_CHAT_ID, a, "ok")
    \/ \E a \in ArgLists : remove_command(OWNER_CHAT_ID, a, "ok")
    \/ \E d \in OwnerDocs : json_document_handler(OWNER_CHAT_ID, d, "ok")
    \/ \E a \in ArgLists : ban_handler(owner_chat_id, a, TRUE)
    \/ \E a \in ArgLists : unban_handler(owner_chat_id, a, TRUE)
    \/ \E d \in OwnerDocs : wait_for_owner_json(owner_chat_id, d)

SpecRegistry == Init /\ [][NextRegistry]_vars

\* The monitor alone over the same folder with a probe that may fail, under
\* the scheduling of the asyncio loop: the monitor task is resumed when its
\* sleep is over or the call it awaits has returned or raised.
FaultyProbes == { ProbeOk, ProbeExit1, ProbeRaised }

NextMonitorFair == Engine(FaultyProbes)

SpecMonitorFair ==
    InitMonitor /\ [][NextMonitorFair]_vars /\ WF_vars(NextMonitorFair)

\* ------------------------------------------------- naming of staged files
\* login.py with a blocklist already in place, receiving media whose attached
\* object carries every arrangement of video and animation attributes
Blocklists == { ListFile(l) : l \in Lists(1) }

InitNaming ==
    /\ chat_ids = <<>>
    /\ chatFile = ListFile(chat_ids)
    /\ blockedFile \in Blocklists
    /\ staging = {}
    /\ InitRest

NamedMessages == Messages(Ids, {0} \cup Ids, {Mp4}, AttrLists)

NextNaming ==
    \/ \E m \in NamedMessages : new_media_handler(m)
    \/ \E f \in writing : download_done(f)

SpecNaming == InitNaming /\ [][NextNaming]_vars

\* ================================================================ claims
\* C1: in one invocation of send_media no recipient gets more than 3 delivery
\* attempts, and when every attempt has failed each recipient of the set has
\* got exactly 3 (and nobody else any).
C1_AttemptsBounded ==
    /\ \A r \in Ids : tried[r] <= 3
    /\ (phase = "done" /\ delivered = Zero) =>
           \A r \in Ids : tried[r] = IF r \in pending_ids THEN 3 ELSE 0

\* an invocation over two recipients has ended with every attempt failed
C1_Witness ==
    /\ phase = "done"
    /\ delivered = Zero
    /\ Cardinality(pending_ids) = 2
    /\ \A r \in pending_ids : tried[r] = 3

\* C2 as stated: every invocation removes its staged file exactly once, after
\* the last pass and not before, whatever happens to the staging directory.
C2_RemovedExactlyOnce ==
    /\ phase = "active" => removed = 0
    /\ phase = "done" => removed = 1

\* C2 as amended: every invocation calls unlink on its staged file exactly
\* once, after the last pass and not before, whatever the delivery outcomes;
\* the call removes the file at most once (it removes nothing when the file
\* is already gone or the unlink raises).
C2_UnlinkedOnce ==
    /\ phase = "active" => unlinks = 0 /\ removed = 0
    /\ phase = "done" => unlinks = 1 /\ removed <= 1
    /\ pc \in InSendMedia <=>
           phase = "active"

\* an invocation in which every delivery failed has ended and removed the file
C2_Witness ==
    /\ phase = "done"
    /\ pending_ids # {}
    /\ delivered = Zero
    /\ unlinks = 1
    /\ removed = 1
    /\ file_path \notin staging

\* C3: once a delivery to r has succeeded, r is out of the pending set and no
\* further attempt is made to r in this invocation (nor a second success).
C3_NoAttemptAfterSuccess ==
    /\ [](\A r \in Ids :
            /\ delivered[r] <= 1
            /\ delivered[r] = 1 =>
                  (r \notin pending_ids /\ r \notin todo /\ cur # [chat |-> r]))
    /\ [][\A r \in Ids :
            (delivered[r] = 1 /\ delivered'[r] = 1) => tried'[r] = tried[r]]_vars

\* r succeeded on its second attempt and a third pass ran without it
C3_Witness ==
    \E r \in Ids :
        /\ phase = "done"
        /\ attempt > 3
        /\ delivered[r] = 1
        /\ tried[r] = 2

\* C4: a failed delivery leaves the recipient pending and the pass goes on:
\* when a pass ends, every recipient pending at its start has had exactly one
\* attempt in it, and those not delivered to are still pending.
C4_PassVisitsAll ==
    /\ \A r \in Ids : passTried[r] <= 1
    /\ (pc = "chat" /\ todo = {}) =>
           \A r \in Ids :
               /\ passTried[r] = IF r \in passStart THEN 1 ELSE 0
               /\ (r \in passStart /\ delivered[r] = 0) => r \in pending_ids

\* a pass over two recipients has ended: one failed, the other was served
C4_Witness ==
    /\ pc = "chat"
    /\ todo = {}
    /\ Cardinality(passStart) = 2
    /\ \E r \in passStart : delivered[r] = 0 /\ r \in pending_ids
    /\ \E r \in passStart : delivered[r] = 1

\* C5 as stated: a .mp4 is sent as animation when the probe reports no audio
\* stream, as video when it reports one, and as video when the probe fails
\* (it cannot be started, exits non-zero, or prints something unexpected).
C5_ProbeFailed ==
    \/ probe.raised
    \/ probe.returncode # 0
    \/ (Strip(probe.stdout) # <<>> /\ Strip(probe.stdout) # <<"a","a","c">>)

C5_Mp4Classification ==
    (phase = "active" /\ ext = Mp4) =>
        /\ C5_ProbeFailed => method_name = "video"
        /\ (~C5_ProbeFailed /\ Strip(probe.stdout) = <<>>) => method_name = "animation"
        /\ (~C5_ProbeFailed /\ Strip(probe.stdout) # <<>>) => method_name = "video"

\* C6: a file whose suffix is, in any spelling of upper and lower case, one of
\* the table's is sent by the method the table gives, and the call carries a
\* caption unless the method is sticker.
C6_Table(e) ==
    CASE e = <<".","j","p","g">> \/ e = <<".","j","p","e","g">>
             \/ e = <<".","p","n","g">> -> "photo"
      [] e = <<".","m","o","v">> \/ e = <<".","a","v","i">>
             \/ e = <<".","m","k","v">> -> "video"
      [] e = <<".","g","i","f">> \/ e = <<".","w","e","b","m">> -> "animation"
      [] e = <<".","w","e","b","p">> -> "sticker"
      [] e = <<".","o","g","a">> -> "voice"
      [] e = <<".","m","p","3">> -> "audio"
      [] OTHER -> "unlisted"

C6_ClassifierTable ==
    /\ \A f \in staging :
          (pc = "iter" /\ f \in items /\ C6_Table(Lower(f.ext)) # "unlisted")
              => ENABLED (\E p \in ProbeResults :
                            monitor_item(f, p, TRUE) /\ pc' = "settle")
    /\ (phase = "active" /\ C6_Table(Lower(file_path.ext)) # "unlisted") =>
          /\ method_name = C6_Table(Lower(file_path.ext))
          /\ pc = "sending" =>
                /\ cur.method = method_name
                /\ cur.captioned <=> (method_name # "sticker")

\* a file named with the suffix .WeBp is being sent as a sticker, no caption
C6_Witness ==
    /\ pc = "sending"
    /\ file_path.ext = <<".","W","e","B","p">>
    /\ cur.method = "sticker"
    /\ ~cur.captioned

\* C7: a media message whose chat or sender is in the blocklist when it is
\* handled adds nothing to the downloads folder.
C7_Store == IF blockedFile.kind = "list" THEN Range(blockedFile.val) ELSE {}

C7_BlockedNotStaged ==
    [][(/\ event' # event
        /\ event'.op = "media"
        /\ (event'.arg[1] \in C7_Store \/ event'.caller \in C7_Store))
          => (staging' = staging /\ writing' = writing)]_vars

\* a message of a blocked sender in a chat that is not blocked was handled and
\* the folder is empty
C7_Witness ==
    /\ event.op = "media"
    /\ event.caller \in C7_Store
    /\ event.arg[1] \notin C7_Store
    /\ staging = {}

C9_RejectsNonList ==
    [][(/\ event' # event
        /\ (event'.op = "replace" \/ event'.op = "blocklist")
        /\ event'.caller = OWNER_CHAT_ID
        /\ event'.arg[1] # "list"
        /\ blockedFile.kind = "list"
        /\ blockedFile.val # <<>>)
          => UNCHANGED <<chat_ids, chatFile, blockedFile>>]_vars

\* C10: a command from anybody but the owner changes neither list, neither
\* durable file nor the downloads folder, and gets no reply.
C10_AdminOps ==
    {"add", "remove", "list", "delete", "replace", "ban", "unban", "blocklist"}

C11_NotAllowed(e) == e.dir \/ Lower(e.ext) \notin allowed_extensions

C11_DeletedUnsent ==
    /\ [](phase = "active" => ~C11_NotAllowed(file_path))
    /\ [][\A e \in items :
            (pc = "iter" /\ e \notin items' /\ e \in staging /\ C11_NotAllowed(e))
              => (/\ pc' = "iter"
                  /\ items' = items \ {e}
                  /\ UNCHANGED <<tried, delivered, total, cur, phase, file_path>>
                  /\ delOk' => staging' = staging \ {e}
                  /\ ~delOk' => staging' = staging)]_vars

\* in one pass the deletion of one entry failed (it is still there) and the
\* entry handled after it was deleted
C11_Witness ==
    /\ pc = "iter"
    /\ phase = "none"
    /\ delOk
    /\ Cardinality(staging) = 1
    /\ \E e \in staging : C11_NotAllowed(e) /\ e \notin items
    /\ items = {}

\* C12: at most one invocation of send_media is active. While one is active
\* the monitor stands inside it and neither takes another entry of its
\* listing nor lists the folder; an invocation is entered only when the one
\* before it has returned, its unlink call made.
C12_OneInvocation ==
    /\ [](phase = "active" <=> pc \in InSendMedia)
    /\ [][/\ phase = "active" => UNCHANGED <<items, file_path, startIds>>
          /\ (pc' = "settle" /\ pc # "settle")
                => (/\ pc = "iter"
                    /\ phase # "active"
                    /\ phase = "done" => unlinks = 1
                    /\ cur = NoCall)]_vars

\* the path was delivered by an invocation that has returned, and the next
\* invocation on it is in its settle delay
C12_Witness ==
    /\ pc = "settle"
    /\ phase = "active"
    /\ unlinks = 0
    /\ total # Zero

\* C13: in every invocation the settle delay is over before the staged file
\* is read: while the invocation is in its settle delay the audio probe has
\* not been run on the file.
C13_SettleBeforeProbe == pc = "settle" => probe = NoProbe

\* C14: the recipients an invocation attempts are the registry as it was when
\* the invocation was entered: nobody else is ever attempted, and once the
\* passes are under way every one of them is either still pending or has
\* been delivered to, whatever the owner did to the registry in between.
C14_SnapshotAtEntry ==
    /\ \A r \in Ids : tried[r] > 0 => r \in startIds
    /\ (phase = "active" /\ pc # "settle") =>
          /\ pending_ids \subseteq startIds
          /\ \A r \in startIds \ pending_ids : delivered[r] >= 1

\* C15: after every add, remove, replace, ban, unban or blocklist upload of
\* the owner, no identifier occurs twice in the registry or in the blocklist,
\* and an identifier the owner has removed is no longer in the registry.
C15_NoDup(list) == Cardinality(Range(list)) = Len(list)

C15_Unique ==
    [][(event' # event /\ event'.caller = OWNER_CHAT_ID)
         => (/\ C15_NoDup(chat_ids')
             /\ C15_NoDup(Loaded(blockedFile'))
             /\ (event'.op = "remove" /\ reply' = "document")
                   => IntOf(event'.arg[1]) \notin Range(chat_ids'))]_vars

C17_BackoffBetweenPasses ==
    /\ pc = "backoff" => (pending_ids # {} /\ attempt < 3)
    /\ pc = "loop" => (todo = {} /\ cur = NoCall)

\* C18: an /add, /remove, /ban or /unban of the owner whose argument list is
\* bad (no argument, more than one argument, or an argument that is no
\* integer) is answered with a text (the usage or the format notice) and
\* changes neither list nor either durable file.
C18_BadArgs(args) == Len(args) # 1 \/ ~IsInt(args[1])

C18_BadInputRejected ==
    [][(/\ event' # event
        /\ event'.caller = OWNER_CHAT_ID
        /\ (event'.op = "add" \/ event'.op = "remove" \/ event'.op = "ban"
               \/ event'.op = "unban")
        /\ C18_BadArgs(event'.arg))
          => (/\ (reply' = "usage" \/ reply' = "invalid")
              /\ UNCHANGED <<chat_ids, chatFile, blockedFile>>)]_vars

\* C19 as stated: when the rewrite of chat_ids.json fails during an add, a
\* remove or a replace, the file keeps the content it had.
C19_FileKeepsOld ==
    [][(event' # event /\ (event'.w = "refused" \/ event'.w = "torn"))
         => chatFile' = chatFile]_vars

\* C19 as amended: when the rewrite fails, the registry in memory holds the
\* mutation all the same; the file keeps its old content when it could not
\* be opened, and holds no list any more when the write failed after the
\* open had truncated it; and an invocation of the engine takes its
\* recipients from the registry in memory, whatever the file holds.
C19_Uploads == { <<>>, <<MaxId>> }

C19_MemoryMutated ==
    /\ [][(event' # event /\ (event'.w = "refused" \/ event'.w = "torn"))
            => (/\ event'.op = "add" =>
                      chat_ids' = Append(chat_ids, IntOf(event'.arg[1]))
                /\ event'.op = "remove" =>
                      /\ Len(chat_ids') = Len(chat_ids) - 1
                      /\ chat_ids' = RemoveFirst(chat_ids, IntOf(event'.arg[1]))
                /\ event'.op = "replace" => chat_ids' \in C19_Uploads
                /\ event'.w = "refused" => chatFile' = chatFile
                /\ event'.w = "torn" => chatFile'.kind = "garbage")]_vars
    /\ [][(pc = "settle" /\ pc' # "settle")
            => pending_ids' = { chat_ids[i] : i \in 1..Len(chat_ids) }]_vars

\* a /add whose rewrite failed has left the file without the identifier, and
\* an invocation entered after it has delivered to that identifier
C19_Witness ==
    /\ event.op = "add"
    /\ event.w = "refused"
    /\ chatFile.kind = "list"
    /\ MaxId \notin Range(chatFile.val)
    /\ MaxId \in startIds
    /\ delivered[MaxId] = 1

\* C20: whatever fails while an entry is handled (a delivery, the open of the
\* file, the probe, an unlink or rmtree), the invocation of send_media
\* returns, every entry of the listing is handled, and the monitor comes back
\* to its polling sleep and lists the folder again, for ever.
C20_MonitorGoesOn ==
    /\ (phase = "active") ~> (phase = "done" /\ pc = "iter")
    /\ \A e \in FolderEntries : (e \in items) ~> (e \notin items)
    /\ []<>(pc = "poll")
    /\ []<>(pc = "iter")

\* the monitor is back in its polling sleep after a pass in which the probe
\* could not be started, deliveries failed, the unlink of the file sent
\* failed and the unlink of a file that is not allowed failed
C20_Witness ==
    /\ pc = "poll"
    /\ phase = "done"
    /\ probe = ProbeRaised
    /\ ~clean
    /\ unlinks = 1 /\ removed = 0
    /\ ~delOk
    /\ Cardinality(staging) = 2

\* C21: for an inbound media event that is not blocked, the file put in the
\* staging folder is named <identifier>-<message id><suffix>: the identifier is
\* the sender when there is one and the chat otherwise; the suffix is "-gif"
\* when some attribute is an animation attribute, wherever it stands, "-video"
\* when there is a video attribute and no animation attribute, and empty
\* otherwise. The name is a function of the event alone.
C21_Has(attrs, a) == \E i \in 1..Len(attrs) : attrs[i] = a

C21_Suffix(attrs) ==
    IF C21_Has(attrs, "animated") THEN "-gif"
    ELSE IF C21_Has(attrs, "video") THEN "-video"
    ELSE ""

C21_Name(chat, sender, id, attrs) ==
    << IF sender = 0 THEN chat ELSE sender, id, C21_Suffix(attrs) >>

C21_Store == IF blockedFile.kind = "list" THEN Range(blockedFile.val) ELSE {}

C21_StagingName ==
    [][(/\ event' # event
        /\ event'.op = "media"
        /\ event'.arg[1] \notin C21_Store
        /\ event'.caller \notin C21_Store)
          => LET f == File(C21_Name(event'.arg[1], event'.caller,
                                    event'.arg[2], event'.arg[3]), Mp4)
             IN  /\ staging' = staging \cup {f}
                 /\ f \in writing']_vars

\* a message with a sender, whose video attribute comes before its animation
\* attribute, was staged under the sender's identifier with the suffix -gif
C21_Witness ==
    /\ event.op = "media"
    /\ event.arg[3] = <<"video", "animated">>
    /\ event.caller # 0
    /\ event.caller # event.arg[1]
    /\ File(<<event.caller, event.arg[2], "-gif">>, Mp4) \in staging
\* C22: a staged file is distributed by at most one invocation of the engine
\* over the life of the process: no recipient is sent the same staged file by
\* two different invocations, also when the deletion that ends an invocation
\* fails. (One invocation delivers to a recipient at most once, so a second
\* delivery of the file to a recipient is the work of a second invocation.)
C22_OneInvocationPerFile == \A r \in Ids : total[r] <= 1
\* C23: the engine never reads or deletes a staged file that the ingestion side
\* is still writing: whenever a file is being sent its download is over, and
\* every file that the monitor or the engine removes from the folder is one
\* whose download is over.
C23_OnlyCompleteFiles ==
    [][/\ pc' = "sending" => file_path' \notin writing'
       /\ (pc = "finish" \/ pc = "iter")
             => \A f \in staging \ staging' : f \notin writing]_vars
\* C24 as stated: when the registry is empty at the moment the pending set is
\* built, the engine makes no delivery attempt and takes no backoff wait,
\* reports success, and deletes the staged file, so that the file has left
\* the folder, delivered to nobody, when the invocation is over.
C24_EmptyRegistryRemoves ==
    (chat_ids = <<>> /\ phase # "none") =>
        /\ tried = Zero /\ delivered = Zero
        /\ pc # "chat" /\ pc # "sending" /\ pc # "backoff"
        /\ phase = "done" =>
              (Outcome = "success" /\ unlinks = 1 /\ file_path \notin staging)

\* C24 as amended: with an empty registry the engine makes no delivery
\* attempt and takes no backoff wait, reports success, and calls the deletion
\* of the staged file once; the file has left the folder exactly when that
\* deletion went through.
C24_EmptyRegistryUnlinks ==
    (chat_ids = <<>> /\ phase # "none") =>
        /\ tried = Zero /\ delivered = Zero
        /\ pc # "chat" /\ pc # "sending" /\ pc # "backoff"
        /\ phase = "done" =>
              /\ Outcome = "success"
              /\ unlinks = 1
              /\ (removed = 1) = (file_path \notin staging)

\* an invocation on a video is over with an empty registry: nobody was tried
\* and the file is gone
C24_Witness ==
    /\ chat_ids = <<>>
    /\ phase = "done"
    /\ file_path.ext = Mp4
    /\ tried = Zero
    /\ removed = 1
    /\ file_path \notin staging
====
